---------------------------- MODULE Spec2Model ----------------------------
(***************************************************************************)
(* Nonogram (noahziheng/nonogram): the clue model and the per-clue         *)
(* completion engine (logic/clues.ts), the win checker (logic/check.ts),   *)
(* the random puzzle generator (logic/generate.ts) and the game reducer    *)
(* (hooks/useGame.ts).                                                     *)
(*                                                                         *)
(* Arrays are TLA+ sequences, so positions are 1-based where the code is   *)
(* 0-based.  Inside computeClueCompletion the code's 0-based numbers       *)
(* (start, end, clue index) are kept and At(s, i) reads s[i].              *)
(***************************************************************************)
EXTENDS Integers, Sequences, FiniteSets, TLC

VARIABLES
    state,        \* the GameState held by useReducer(gameReducer, ...)
    line,         \* computeClueCompletion / lineMatchesClue: argument line
    clues,        \* computeClueCompletion / lineMatchesClue: argument clues
    completion,   \* computeClueCompletion: returned boolean[] (<<>> before the call)
    win,          \* checkWin: arguments and returned value
    gen,          \* generateRandomPuzzle: locals of the running call
    mark,         \* autoMarkCompleted: the board it mutates and its clue arrays
    match         \* lineMatchesClue: arguments and returned value

vars == <<state, line, clues, completion, win, gen, mark, match>>

-----------------------------------------------------------------------------
(* types/index.ts *)

Empty == 0
Filled == 1
MarkedX == 2

CellStates == {Empty, Filled, MarkedX}

Idle == [idle |-> TRUE]

At(s, i) == s[i + 1]

Max(a, b) == IF a > b THEN a ELSE b

Abs(a) == IF a < 0 THEN 0 - a ELSE a

RECURSIVE Sum(_)
Sum(s) == IF s = <<>> THEN 0 ELSE Head(s) + Sum(Tail(s))

-----------------------------------------------------------------------------
(* logic/clues.ts: clue model *)

RECURSIVE lineCluesFrom(_, _, _, _)
lineCluesFrom(ln, i, run, acc) ==
    IF i > Len(ln)
    THEN IF run > 0 THEN Append(acc, run) ELSE acc
    ELSE IF ln[i] = 1
         THEN lineCluesFrom(ln, i + 1, run + 1, acc)
         ELSE IF run > 0
              THEN lineCluesFrom(ln, i + 1, 0, Append(acc, run))
              ELSE lineCluesFrom(ln, i + 1, run, acc)

lineClues(ln) ==
    LET cl == lineCluesFrom(ln, 1, 0, <<>>)
    IN  IF Len(cl) > 0 THEN cl ELSE <<0>>

computeRowClues(solution) ==
    [r \in 1..Len(solution) |-> lineClues(solution[r])]

computeColClues(solution) ==
    [c \in 1..Len(solution[1]) |->
        lineClues([r \in 1..Len(solution) |-> solution[r][c]])]

lineMatchesClue_lengthOnly(ln, clue) ==
    LET playerClue == lineClues(ln)
    IN  Len(playerClue) = Len(clue)

lineMatchesClue_firstOnly(ln, clue) ==
    LET playerClue == lineClues(ln)
    IN  IF Len(playerClue) # Len(clue)
        THEN FALSE
        ELSE playerClue[1] = clue[1]

lineMatchesClue(ln, clue) ==
    LET playerClue == lineClues(ln)
    IN  IF Len(playerClue) # Len(clue)
        THEN FALSE
        ELSE \A i \in 1..Len(playerClue) : playerClue[i] = clue[i]

-----------------------------------------------------------------------------
(* logic/clues.ts: computeClueCompletion *)

RECURSIVE runEnd(_, _)
runEnd(ln, i) ==
    IF i < Len(ln) /\ At(ln, i) = Filled THEN runEnd(ln, i + 1) ELSE i

RECURSIVE findRunsFrom(_, _, _)
findRunsFrom(ln, i, runs) ==
    IF i >= Len(ln)
    THEN runs
    ELSE IF At(ln, i) = Filled
         THEN LET start == i
                  end == runEnd(ln, i)
                  leftSealed == start = 0 \/ At(ln, start - 1) = MarkedX
                  rightSealed == end = Len(ln) \/ At(ln, end) = MarkedX
              IN  findRunsFrom(ln, end,
                      Append(runs, [start |-> start, end |-> end,
                                    len |-> end - start,
                                    sealed |-> leftSealed /\ rightSealed]))
         ELSE findRunsFrom(ln, i + 1, runs)

findRuns(ln) == findRunsFrom(ln, 0, <<>>)

prefixSum(cl, j) == Sum(SubSeq(cl, 1, j))

minBefore(cl, ci) == prefixSum(cl, ci) + ci

minAfter_gapAfterLast(cl, ci) ==
    (prefixSum(cl, Len(cl)) - prefixSum(cl, ci + 1)) + (Len(cl) - ci)

minAfter(cl, ci) ==
    (prefixSum(cl, Len(cl)) - prefixSum(cl, ci + 1)) + (Len(cl) - 1 - ci)

isCandidate_noMinBefore(ln, cl, run, ci) ==
    /\ At(cl, ci) = run.len
    /\ minAfter(cl, ci) <= Len(ln) - run.end

isCandidate_sealedOnly(ln, cl, run, ci) ==
    /\ run.sealed
    /\ At(cl, ci) = run.len
    /\ minBefore(cl, ci) <= run.start
    /\ minAfter(cl, ci) <= Len(ln) - run.end

isCandidate(ln, cl, run, ci) ==
    /\ At(cl, ci) = run.len
    /\ minBefore(cl, ci) <= run.start
    /\ minAfter(cl, ci) <= Len(ln) - run.end

RECURSIVE possibleFrom(_, _, _, _, _)
possibleFrom(ln, cl, run, ci, possible) ==
    IF ci >= Len(cl)
    THEN possible
    ELSE possibleFrom(ln, cl, run, ci + 1,
             IF isCandidate(ln, cl, run, ci)
             THEN Append(possible, ci) ELSE possible)

initialCandidates(ln, cl, runs) ==
    [ri \in 1..Len(runs) |-> possibleFrom(ln, cl, runs[ri], 0, <<>>)]

RECURSIVE forwardPass_notStrict(_, _)
forwardPass_notStrict(cands, ri) ==
    IF ri >= Len(cands)
    THEN cands
    ELSE IF Len(At(cands, ri - 1)) = 0
         THEN forwardPass_notStrict(cands, ri + 1)
         ELSE LET prevMin == At(cands, ri - 1)[1]
                  kept == SelectSeq(At(cands, ri), LAMBDA c : c >= prevMin)
              IN  forwardPass_notStrict([cands EXCEPT ![ri + 1] = kept], ri + 1)

RECURSIVE forwardPass(_, _)
forwardPass(cands, ri) ==
    IF ri >= Len(cands)
    THEN cands
    ELSE IF Len(At(cands, ri - 1)) = 0
         THEN forwardPass(cands, ri + 1)
         ELSE LET prevMin == At(cands, ri - 1)[1]
                  kept == SelectSeq(At(cands, ri), LAMBDA c : c > prevMin)
              IN  forwardPass([cands EXCEPT ![ri + 1] = kept], ri + 1)

RECURSIVE backwardPass(_, _)
backwardPass(cands, ri) ==
    IF ri < 0
    THEN cands
    ELSE IF Len(At(cands, ri + 1)) = 0
         THEN backwardPass(cands, ri - 1)
         ELSE LET nxt == At(cands, ri + 1)
                  nextMax == nxt[Len(nxt)]
                  kept == SelectSeq(At(cands, ri), LAMBDA c : c < nextMax)
              IN  backwardPass([cands EXCEPT ![ri + 1] = kept], ri - 1)

RECURSIVE prune(_)
prune(cands) ==
    LET pruned == backwardPass(forwardPass(cands, 1), Len(cands) - 2)
    IN  IF pruned = cands THEN cands ELSE prune(pruned)

prunedCandidates(ln, cl) ==
    LET runs == findRuns(ln)
    IN  prune(initialCandidates(ln, cl, runs))

markCompleted_firstCandidate(cands, n) ==
    [i \in 1..n |-> \E ri \in 1..Len(cands) :
                        Len(cands[ri]) >= 1 /\ cands[ri][1] = i - 1]

markCompleted(cands, n) ==
    [i \in 1..n |-> \E ri \in 1..Len(cands) :
                        Len(cands[ri]) = 1 /\ cands[ri][1] = i - 1]

computeClueCompletion(ln, cl) ==
    LET n == Len(cl)
    IN  IF n = 1 /\ cl[1] = 0
        THEN << \A k \in 1..Len(ln) : ln[k] # Filled >>
        ELSE IF Len(findRuns(ln)) = 0
             THEN [i \in 1..n |-> FALSE]
             ELSE markCompleted(prunedCandidates(ln, cl), n)

-----------------------------------------------------------------------------
(* logic/check.ts *)

filledPattern_notEmpty(cells) ==
    [k \in 1..Len(cells) |-> IF cells[k] # Empty THEN 1 ELSE 0]

filledPattern(cells) == [k \in 1..Len(cells) |-> IF cells[k] = Filled THEN 1 ELSE 0]

column(board, c) == [r \in 1..Len(board) |-> board[r][c]]

RECURSIVE checkCols(_, _, _)
checkCols(board, colClues, c) ==
    IF c > Len(board[1])
    THEN TRUE
    ELSE IF ~lineMatchesClue(filledPattern(column(board, c)), colClues[c])
         THEN FALSE
         ELSE checkCols(board, colClues, c + 1)

RECURSIVE checkRows(_, _, _, _)
checkRows(board, rowClues, colClues, r) ==
    IF r > Len(board)
    THEN checkCols(board, colClues, 1)
    ELSE IF ~lineMatchesClue(filledPattern(board[r]), rowClues[r])
         THEN FALSE
         ELSE checkRows(board, rowClues, colClues, r + 1)

checkWin(board, rowClues, colClues) == checkRows(board, rowClues, colClues, 1)

-----------------------------------------------------------------------------
(* hooks/useGame.ts *)

PENALTY_SECONDS == 5

markEmpty_fills(cell) == IF cell = Empty THEN Filled ELSE cell

markEmpty(cell) == IF cell = Empty THEN MarkedX ELSE cell

autoMarkRows(board, rowClues) ==
    [r \in 1..Len(board) |->
        IF lineMatchesClue(filledPattern(board[r]), rowClues[r])
        THEN [c \in 1..Len(board[r]) |-> markEmpty(board[r][c])]
        ELSE board[r]]

autoMarkCols(board, colClues) ==
    [r \in 1..Len(board) |->
        [c \in 1..Len(board[r]) |->
            IF lineMatchesClue(filledPattern(column(board, c)), colClues[c])
            THEN markEmpty(board[r][c])
            ELSE board[r][c]]]

autoMarkCompleted_rowsOnly(board, rowClues, colClues) ==
    autoMarkRows(board, rowClues)

autoMarkCompleted(board, rowClues, colClues) ==
    autoMarkCols(autoMarkRows(board, rowClues), colClues)

(* The per-size tables of types/index.ts, at the model's scale: the one    *)
(* table entry kept is SmallBoard (for '5x5'); every other size takes the  *)
(* `??` defaults of createInitialState.  Seconds are scaled down.          *)
SmallBoard == <<2, 3>>

TimeLimitSmall == 16

TimeLimitDefault == 7

ErrorLimitSmall == 3

ErrorLimitDefault == 5

TIME_LIMITS == [key \in {SmallBoard} |-> TimeLimitSmall]

ERROR_LIMITS == [key \in {SmallBoard} |-> ErrorLimitSmall]

sizeKey(puzzle) == <<puzzle.rows, puzzle.cols>>

createInitialState(puzzle) ==
    LET key == sizeKey(puzzle)
        limit == IF key \in DOMAIN TIME_LIMITS THEN TIME_LIMITS[key]
                 ELSE TimeLimitDefault
        maxErrors == IF key \in DOMAIN ERROR_LIMITS THEN ERROR_LIMITS[key]
                     ELSE ErrorLimitDefault
    IN  [puzzle |-> puzzle,
         board |-> [r \in 1..puzzle.rows |-> [c \in 1..puzzle.cols |-> Empty]],
         rowClues |-> computeRowClues(puzzle.solution),
         colClues |-> computeColClues(puzzle.solution),
         timeLimit |-> limit,
         remaining |-> limit,
         started |-> FALSE,
         won |-> FALSE,
         lost |-> FALSE,
         lostReason |-> "null",
         errorCells |-> {},
         errorCount |-> 0,
         maxErrors |-> maxErrors,
         inputMode |-> "fill"]

(* useGame.ts 84-90 / 126-132: the bookkeeping of a player mistake.  The   *)
(* key `${row},${col}` of errorCells is the pair <<row, col>>.             *)
penalty_noTimeCost(s, row, col) ==
    LET newErrorCount == s.errorCount + 1
        newRemaining == s.remaining
    IN  [newErrors |-> s.errorCells \cup {<<row, col>>},
         newErrorCount |-> newErrorCount,
         newRemaining |-> newRemaining,
         errorsExhausted |-> newErrorCount >= s.maxErrors,
         timeOut |-> newRemaining = 0]

penalty_noClamp(s, row, col) ==
    LET newErrorCount == s.errorCount + 1
        newRemaining == s.remaining - PENALTY_SECONDS
    IN  [newErrors |-> s.errorCells \cup {<<row, col>>},
         newErrorCount |-> newErrorCount,
         newRemaining |-> newRemaining,
         errorsExhausted |-> newErrorCount >= s.maxErrors,
         timeOut |-> newRemaining = 0]

penalty(s, row, col) ==
    LET newErrorCount == s.errorCount + 1
        newRemaining == Max(0, s.remaining - PENALTY_SECONDS)
    IN  [newErrors |-> s.errorCells \cup {<<row, col>>},
         newErrorCount |-> newErrorCount,
         newRemaining |-> newRemaining,
         errorsExhausted |-> newErrorCount >= s.maxErrors,
         timeOut |-> newRemaining = 0]

lostReasonOf_timeFirst(p) ==
    IF p.timeOut THEN "time" ELSE IF p.errorsExhausted THEN "errors" ELSE "null"

lostReasonOf(p) ==
    IF p.errorsExhausted THEN "errors" ELSE IF p.timeOut THEN "time" ELSE "null"

wrongFill_lostOnlyByErrors(s, row, col) ==
    LET p == penalty(s, row, col)
    IN  [s EXCEPT !.board[row][col] = MarkedX,
                  !.started = TRUE,
                  !.remaining = p.newRemaining,
                  !.lost = p.errorsExhausted,
                  !.lostReason = lostReasonOf(p),
                  !.errorCells = p.newErrors,
                  !.errorCount = p.newErrorCount]

wrongFill_noStart(s, row, col) ==
    LET p == penalty(s, row, col)
    IN  [s EXCEPT !.board[row][col] = MarkedX,
                  !.remaining = p.newRemaining,
                  !.lost = p.errorsExhausted \/ p.timeOut,
                  !.lostReason = lostReasonOf(p),
                  !.errorCells = p.newErrors,
                  !.errorCount = p.newErrorCount]

wrongFill(s, row, col) ==
    LET p == penalty(s, row, col)
    IN  [s EXCEPT !.board[row][col] = MarkedX,
                  !.started = TRUE,
                  !.remaining = p.newRemaining,
                  !.lost = p.errorsExhausted \/ p.timeOut,
                  !.lostReason = lostReasonOf(p),
                  !.errorCells = p.newErrors,
                  !.errorCount = p.newErrorCount]

correctFill_noWinCheck(s, row, col) ==
    LET newBoard == autoMarkCompleted([s.board EXCEPT ![row][col] = Filled],
                                      s.rowClues, s.colClues)
    IN  [s EXCEPT !.board = newBoard, !.started = TRUE]

correctFill_noAutoMark(s, row, col) ==
    LET newBoard == [s.board EXCEPT ![row][col] = Filled]
        won == checkWin(newBoard, s.rowClues, s.colClues)
    IN  [s EXCEPT !.board = newBoard, !.started = TRUE, !.won = won]

correctFill(s, row, col) ==
    LET newBoard == autoMarkCompleted([s.board EXCEPT ![row][col] = Filled],
                                      s.rowClues, s.colClues)
        won == checkWin(newBoard, s.rowClues, s.colClues)
    IN  [s EXCEPT !.board = newBoard, !.started = TRUE, !.won = won]

FILL_CELL_noMarkedGuard(s, row, col) ==
    IF s.won \/ s.lost THEN s
    ELSE LET current == s.board[row][col]
         IN  IF current = Filled
             THEN [s EXCEPT !.board[row][col] = Empty, !.started = TRUE]
             ELSE IF s.puzzle.solution[row][col] = 0
                  THEN wrongFill(s, row, col)
                  ELSE correctFill(s, row, col)

FILL_CELL(s, row, col) ==
    IF s.won \/ s.lost THEN s
    ELSE LET current == s.board[row][col]
         IN  IF current = MarkedX THEN s
             ELSE IF current = Filled
                  THEN [s EXCEPT !.board[row][col] = Empty, !.started = TRUE]
                  ELSE IF s.puzzle.solution[row][col] = 0
                       THEN wrongFill(s, row, col)
                       ELSE correctFill(s, row, col)

wrongMark_noAutoMark(s, row, col) ==
    LET p == penalty(s, row, col)
        newBoard == [s.board EXCEPT ![row][col] = Filled]
        won == checkWin(newBoard, s.rowClues, s.colClues)
    IN  [s EXCEPT !.board = newBoard,
                  !.started = TRUE,
                  !.remaining = p.newRemaining,
                  !.lost = p.errorsExhausted \/ p.timeOut,
                  !.lostReason = lostReasonOf(p),
                  !.won = IF p.errorsExhausted \/ p.timeOut THEN FALSE ELSE won,
                  !.errorCells = p.newErrors,
                  !.errorCount = p.newErrorCount]

wrongMark_wonRegardless(s, row, col) ==
    LET p == penalty(s, row, col)
        newBoard == autoMarkCompleted([s.board EXCEPT ![row][col] = Filled],
                                      s.rowClues, s.colClues)
        won == checkWin(newBoard, s.rowClues, s.colClues)
    IN  [s EXCEPT !.board = newBoard,
                  !.started = TRUE,
                  !.remaining = p.newRemaining,
                  !.lost = p.errorsExhausted \/ p.timeOut,
                  !.lostReason = lostReasonOf(p),
                  !.won = won,
                  !.errorCells = p.newErrors,
                  !.errorCount = p.newErrorCount]

wrongMark(s, row, col) ==
    LET p == penalty(s, row, col)
        newBoard == autoMarkCompleted([s.board EXCEPT ![row][col] = Filled],
                                      s.rowClues, s.colClues)
        won == checkWin(newBoard, s.rowClues, s.colClues)
    IN  [s EXCEPT !.board = newBoard,
                  !.started = TRUE,
                  !.remaining = p.newRemaining,
                  !.lost = p.errorsExhausted \/ p.timeOut,
                  !.lostReason = lostReasonOf(p),
                  !.won = IF p.errorsExhausted \/ p.timeOut THEN FALSE ELSE won,
                  !.errorCells = p.newErrors,
                  !.errorCount = p.newErrorCount]

MARK_X_noSolutionCheck(s, row, col) ==
    IF s.won \/ s.lost THEN s
    ELSE IF s.board[row][col] = Filled THEN s
    ELSE IF s.board[row][col] = MarkedX
         THEN [s EXCEPT !.board[row][col] = Empty, !.started = TRUE]
         ELSE [s EXCEPT !.board[row][col] = MarkedX, !.started = TRUE]

MARK_X(s, row, col) ==
    IF s.won \/ s.lost THEN s
    ELSE IF s.board[row][col] = Filled THEN s
    ELSE IF s.board[row][col] = MarkedX
         THEN [s EXCEPT !.board[row][col] = Empty, !.started = TRUE]
         ELSE IF s.puzzle.solution[row][col] = 1
              THEN wrongMark(s, row, col)
              ELSE [s EXCEPT !.board[row][col] = MarkedX, !.started = TRUE]

CLEAR_ERROR(s, row, col) ==
    IF <<row, col>> \notin s.errorCells THEN s
    ELSE [s EXCEPT !.errorCells = s.errorCells \ {<<row, col>>}]

SET_INPUT_MODE(s, mode) == [s EXCEPT !.inputMode = mode]

TICK_noTerminalGuard(s) ==
    IF ~s.started THEN s
    ELSE LET newRemaining == s.remaining - 1
         IN  IF newRemaining <= 0
             THEN [s EXCEPT !.remaining = 0, !.lost = TRUE, !.lostReason = "time"]
             ELSE [s EXCEPT !.remaining = newRemaining]

TICK_noStartedGuard(s) ==
    IF s.won \/ s.lost THEN s
    ELSE LET newRemaining == s.remaining - 1
         IN  IF newRemaining <= 0
             THEN [s EXCEPT !.remaining = 0, !.lost = TRUE, !.lostReason = "time"]
             ELSE [s EXCEPT !.remaining = newRemaining]

TICK_stuckAtOne(s) ==
    IF ~s.started \/ s.won \/ s.lost THEN s
    ELSE LET newRemaining == s.remaining - 1
         IN  IF newRemaining <= 0
             THEN s
             ELSE [s EXCEPT !.remaining = newRemaining]

TICK(s) ==
    IF ~s.started \/ s.won \/ s.lost THEN s
    ELSE LET newRemaining == s.remaining - 1
         IN  IF newRemaining <= 0
             THEN [s EXCEPT !.remaining = 0, !.lost = TRUE, !.lostReason = "time"]
             ELSE [s EXCEPT !.remaining = newRemaining]

gameReducer_resetKeepsErrors(s, action) ==
    CASE action.type = "FILL_CELL" -> FILL_CELL(s, action.row, action.col)
      [] action.type = "MARK_X" -> MARK_X(s, action.row, action.col)
      [] action.type = "CLEAR_ERROR" -> CLEAR_ERROR(s, action.row, action.col)
      [] action.type = "SET_INPUT_MODE" -> SET_INPUT_MODE(s, action.mode)
      [] action.type = "TICK" -> TICK(s)
      [] action.type = "NEW_GAME" -> createInitialState(action.puzzle)
      [] action.type = "RESET" ->
            [createInitialState(s.puzzle) EXCEPT !.errorCount = s.errorCount,
                                                 !.errorCells = s.errorCells]
      [] OTHER -> s

gameReducer(s, action) ==
    CASE action.type = "FILL_CELL" -> FILL_CELL(s, action.row, action.col)
      [] action.type = "MARK_X" -> MARK_X(s, action.row, action.col)
      [] action.type = "CLEAR_ERROR" -> CLEAR_ERROR(s, action.row, action.col)
      [] action.type = "SET_INPUT_MODE" -> SET_INPUT_MODE(s, action.mode)
      [] action.type = "TICK" -> TICK(s)
      [] action.type = "NEW_GAME" -> createInitialState(action.puzzle)
      [] action.type = "RESET" -> createInitialState(s.puzzle)
      [] OTHER -> s

-----------------------------------------------------------------------------
(* The game: useGame(initialPuzzle) and the actions dispatched to it *)

Puzzle(solution) ==
    [rows |-> Len(solution), cols |-> Len(solution[1]), solution |-> solution]

Puzzles ==
    { Puzzle(<< <<1, 0, 1>>, <<0, 1, 0>> >>),
      Puzzle(<< <<1, 1>>, <<0, 1>> >>) }

InputModes == {"fill", "markX"}

Cells(s) == (1..s.puzzle.rows) \X (1..s.puzzle.cols)

Init ==
    /\ \E puzzle \in Puzzles : state = createInitialState(puzzle)
    /\ line = <<>> /\ clues = <<>> /\ completion = <<>>
    /\ win = Idle /\ gen = Idle
    /\ mark = Idle /\ match = Idle

Dispatch(action) ==
    /\ state' = gameReducer(state, action)
    /\ UNCHANGED <<line, clues, completion, win, gen, mark, match>>

fillCell ==
    \E rc \in Cells(state) :
        Dispatch([type |-> "FILL_CELL", row |-> rc[1], col |-> rc[2]])

markX ==
    \E rc \in Cells(state) :
        Dispatch([type |-> "MARK_X", row |-> rc[1], col |-> rc[2]])

clearError ==
    \E rc \in Cells(state) :
        Dispatch([type |-> "CLEAR_ERROR", row |-> rc[1], col |-> rc[2]])

setInputMode ==
    \E mode \in InputModes : Dispatch([type |-> "SET_INPUT_MODE", mode |-> mode])

tick == Dispatch([type |-> "TICK"])

newGame == \E puzzle \in Puzzles : Dispatch([type |-> "NEW_GAME", puzzle |-> puzzle])

reset == Dispatch([type |-> "RESET"])

Next ==
    \/ fillCell
    \/ markX
    \/ clearError
    \/ setInputMode
    \/ tick
    \/ newGame
    \/ reset

Spec == Init /\ [][Next]_vars

-----------------------------------------------------------------------------
(* The completion engine as a pure function: Board.tsx calls               *)
(* computeClueCompletion(line, clues) for one row or column at a time.     *)

MaxLen == 6

MaxClueLen == 3

MaxClueVal == 3

SeqsOf(S, n) == UNION {[1..k -> S] : k \in 1..n}

Lines == SeqsOf(CellStates, MaxLen)

ClueArrays == SeqsOf(1..MaxClueVal, MaxClueLen) \cup {<<0>>}

InitLine ==
    /\ line \in Lines
    /\ clues \in ClueArrays
    /\ completion = <<>>
    /\ state = Idle /\ win = Idle /\ gen = Idle
    /\ mark = Idle /\ match = Idle

callComputeClueCompletion ==
    /\ completion = <<>>
    /\ completion' = computeClueCompletion(line, clues)
    /\ UNCHANGED <<state, line, clues, win, gen, mark, match>>

NextLine == callComputeClueCompletion

SpecLine == InitLine /\ [][NextLine]_vars

BinaryLines(n) == [1..n -> {0, 1}]

(* the line never contradicts the solution line *)
consistentWith(ln, sol) ==
    \A k \in 1..Len(ln) :
        /\ ln[k] = Filled => sol[k] = 1
        /\ ln[k] = MarkedX => sol[k] = 0

runPlaced(ln, run) == \A k \in run.start..(run.end - 1) : At(ln, k) = Filled

(* C1: for a line consistent with a solution line and the clue derived    *)
(* from that solution line, a set flag i means that the i-th run of the    *)
(* solution line is completely Filled in the line.                         *)
C1_FlagOnlyForPlacedRun ==
    completion # <<>> =>
        \A sol \in BinaryLines(Len(line)) :
            (consistentWith(line, sol) /\ clues = lineClues(sol)) =>
                LET solRuns == findRuns(sol)
                IN  \A i \in 1..Len(solRuns) :
                        completion[i] => runPlaced(line, solRuns[i])

C2_Line == <<Filled, Filled, Empty, Empty, Empty, Empty>>

(* C2 as stated: clue [2,2] on the 6-cell line with cells 0 and 1 Filled   *)
(* and the rest Empty gives [false, false].                                *)
C2_AsStated ==
    (line = C2_Line /\ clues = <<2, 2>> /\ completion # <<>>) =>
        completion = <<FALSE, FALSE>>

(* C2 amended: on that input the run at position 0 has the single          *)
(* candidate 0 (minBefore(1) = 3 > 0), so the result is [true, false].     *)
C2_FirstClueCompleted ==
    (line = C2_Line /\ clues = <<2, 2>> /\ completion # <<>>) =>
        completion = <<TRUE, FALSE>>

C2_Witness ==
    line = C2_Line /\ clues = <<2, 2>> /\ completion = <<TRUE, FALSE>>

(* cells a..b (1-based) are the only Filled cells of ln, and the run is    *)
(* bounded on each side by a MarkedX cell or the line edge                 *)
singleSealedRun(ln, a, b) ==
    /\ \A k \in 1..Len(ln) : ln[k] = Filled <=> (a <= k /\ k <= b)
    /\ a = 1 \/ ln[a - 1] = MarkedX
    /\ b = Len(ln) \/ ln[b + 1] = MarkedX

(* C14: for a line whose only run of Filled cells has length L and is      *)
(* bounded on each side by MarkedX or the line edge,                       *)
(* computeClueCompletion(line, [L]) returns [true].                        *)
C14_SealedRunExact ==
    completion # <<>> =>
        \A a \in 1..Len(line), b \in 1..Len(line) :
            (a <= b /\ singleSealedRun(line, a, b) /\ clues = <<b - a + 1>>)
                => completion = <<TRUE>>

C14_Witness ==
    /\ completion = <<TRUE>>
    /\ clues = <<2>>
    /\ \E a \in 2..(Len(line) - 2) :
           /\ singleSealedRun(line, a, a + 1)
           /\ line[a - 1] = MarkedX /\ line[a + 2] = MarkedX
    /\ \E k \in 1..Len(line) : line[k] = Empty

(* the runs whose candidate set, after pruning, is the singleton {i}       *)
singletonRuns(ln, cl, i) ==
    LET cands == prunedCandidates(ln, cl)
    IN  {ri \in 1..Len(cands) : cands[ri] = <<i>>}

unmarked(ln) == [k \in 1..Len(ln) |-> IF ln[k] = Filled THEN Filled ELSE Empty]

(* C24: the result of computeClueCompletion depends only on the positions  *)
(* of the Filled cells: every line gives the result of the line with the   *)
(* same Filled cells and no MarkedX cell, so two lines that differ only in *)
(* which non-Filled cells are Empty or MarkedX give equal results.         *)
C24_OnlyFilledPositionsMatter ==
    completion # <<>> => completion = computeClueCompletion(unmarked(line), clues)

C24_Witness ==
    /\ completion # <<>>
    /\ \E i \in 1..Len(completion) : completion[i]
    /\ \E i \in 1..Len(completion) : ~completion[i]
    /\ \E ri \in 1..Len(findRuns(line)) :
           /\ findRuns(line)[ri].sealed
           /\ ~findRuns(unmarked(line))[ri].sealed

(* C25: when the Filled pattern of the line matches the clue as a whole    *)
(* (lineMatchesClue), computeClueCompletion returns true for every clue    *)
(* index, also when the clue repeats a length.                             *)
C25_WholeLineImpliesEveryClue ==
    (completion # <<>> /\ lineMatchesClue(filledPattern(line), clues)) =>
        \A i \in 1..Len(completion) : completion[i]

C25_Witness ==
    /\ completion # <<>>
    /\ lineMatchesClue(filledPattern(line), clues)
    /\ Len(clues) = 3 /\ clues[1] = clues[2] /\ clues[2] = clues[3]
    /\ \A i \in 1..Len(completion) : completion[i]
    /\ Len(line) > Sum(clues) + Len(clues) - 1

-----------------------------------------------------------------------------
(* Filling the solution: from a new game, FILL_CELL on solution-filled     *)
(* cells that have not been filled yet, and nothing else.                  *)

FillMaxCells == 9

Grids(rows, cols) == [1..rows -> [1..cols -> {0, 1}]]

filledCells(solution) ==
    {rc \in (1..Len(solution)) \X (1..Len(solution[1])) : solution[rc[1]][rc[2]] = 1}

FillDims ==
    {d \in (1..FillMaxCells) \X (1..FillMaxCells) : d[1] * d[2] <= FillMaxCells}

FillSolutions ==
    {g \in UNION {Grids(d[1], d[2]) : d \in FillDims} : filledCells(g) # {}}

InitFill ==
    /\ \E solution \in FillSolutions : state = createInitialState(Puzzle(solution))
    /\ line = <<>> /\ clues = <<>> /\ completion = <<>>
    /\ win = Idle /\ gen = Idle
    /\ mark = Idle /\ match = Idle

fillSolutionCell ==
    \E rc \in filledCells(state.puzzle.solution) :
        /\ state.board[rc[1]][rc[2]] # Filled
        /\ Dispatch([type |-> "FILL_CELL", row |-> rc[1], col |-> rc[2]])

NextFill == fillSolutionCell

SpecFill == InitFill /\ [][NextFill]_vars

allSolutionCellsFilled(s) ==
    \A rc \in filledCells(s.puzzle.solution) : s.board[rc[1]][rc[2]] = Filled

(* C3: while FILL_CELL is performed once on each solution-filled cell and  *)
(* nothing else happens, no solution-filled cell is ever blocked and won   *)
(* is false until the last of them is filled, and true from then on.       *)
C3_WonExactlyOnLastFill ==
    /\ state.won <=> allSolutionCellsFilled(state)
    /\ \A rc \in filledCells(state.puzzle.solution) :
           state.board[rc[1]][rc[2]] \in {Empty, Filled}
    /\ ~state.lost

C3_Witness ==
    /\ state.won
    /\ Cardinality(filledCells(state.puzzle.solution)) >= 3
    /\ \E r \in 1..state.puzzle.rows :
           \A c \in 1..state.puzzle.cols : state.puzzle.solution[r][c] = 0

-----------------------------------------------------------------------------
(* Claims about the game reducer *)

Playing(s) == ~s.won /\ ~s.lost

wrongFillCells(s) ==
    {rc \in Cells(s) : s.board[rc[1]][rc[2]] = Empty
                       /\ s.puzzle.solution[rc[1]][rc[2]] = 0}

wrongMarkCells(s) ==
    {rc \in Cells(s) : s.board[rc[1]][rc[2]] = Empty
                       /\ s.puzzle.solution[rc[1]][rc[2]] = 1}

C4_Start(s) ==
    Playing(s) /\ s.remaining = 10 /\ s.errorCount = 0 /\ s.maxErrors = 3

C4_Triples(s) ==
    {t \in wrongFillCells(s) \X wrongFillCells(s) \X wrongFillCells(s) :
        t[1] # t[2] /\ t[1] # t[3] /\ t[2] # t[3]}

C4_After(s, t) ==
    FILL_CELL(FILL_CELL(FILL_CELL(s, t[1][1], t[1][2]), t[2][1], t[2][2]),
              t[3][1], t[3][2])

(* C4 as stated: from remaining=10, errorCount=0, maxErrors=3, three       *)
(* consecutive wrong fills end with lost=true and lostReason='errors'.     *)
C4_AsStated ==
    C4_Start(state) =>
        \A t \in C4_Triples(state) :
            C4_After(state, t).lost /\ C4_After(state, t).lostReason = "errors"

(* C4 amended: the second wrong fill brings remaining to 0 while           *)
(* errorCount = 2 < maxErrors, so the game is lost with reason 'time' and  *)
(* the third FILL_CELL is a no-op.                                         *)
C4_LostByTime ==
    C4_Start(state) =>
        \A t \in C4_Triples(state) :
            LET e == C4_After(state, t)
            IN  /\ e.lost /\ e.lostReason = "time"
                /\ e.errorCount = 2 /\ e.remaining = 0
                /\ e.board[t[3][1]][t[3][2]] = Empty

C4_Witness ==
    /\ C4_Start(state)
    /\ \E t \in C4_Triples(state) : C4_After(state, t).lostReason = "time"

(* C7: a FILL_CELL on an Empty cell whose solution value is empty, in a    *)
(* Playing state, sets exactly that cell to MarkedX, adds 1 to errorCount, *)
(* sets remaining to max(0, remaining - 5), adds the cell to errorCells    *)
(* and sets lost iff errorCount reached maxErrors or remaining reached 0.  *)
C7_WrongFill ==
    [][\A rc \in wrongFillCells(state) :
          (Playing(state) /\ state' = FILL_CELL(state, rc[1], rc[2]))
          => /\ state'.board = [state.board EXCEPT ![rc[1]][rc[2]] = MarkedX]
             /\ state'.errorCount = state.errorCount + 1
             /\ state'.remaining = Max(0, state.remaining - 5)
             /\ state'.errorCells = state.errorCells \cup {rc}
             /\ state'.lost <=> (\/ state'.errorCount >= state.maxErrors
                                 \/ state'.remaining = 0)
             /\ ~state'.won
             /\ (state.remaining = 10 /\ state.errorCount = 0
                 /\ state.maxErrors = 3)
                => (state'.remaining = 5 /\ state'.errorCount = 1
                    /\ ~state'.lost)]_vars

C7_Witness ==
    /\ state # Idle
    /\ state.remaining = 5 /\ state.errorCount = 1 /\ state.maxErrors = 3
    /\ ~state.lost
    /\ \E rc \in state.errorCells : state.board[rc[1]][rc[2]] = MarkedX

(* C8: a MARK_X on an Empty cell whose solution value is filled, in a      *)
(* Playing state, sets the cell to Filled, applies the penalty of a wrong  *)
(* fill, runs the auto-mark pass, and sets won when the resulting board    *)
(* satisfies checkWin and neither the errors nor the time are exhausted.   *)
C8_WrongMark ==
    [][\A rc \in wrongMarkCells(state) :
          (Playing(state) /\ state' = MARK_X(state, rc[1], rc[2]))
          => /\ state'.board[rc[1]][rc[2]] = Filled
             /\ state'.board =
                    autoMarkCompleted([state.board EXCEPT ![rc[1]][rc[2]] = Filled],
                                      state.rowClues, state.colClues)
             /\ state'.errorCount = state.errorCount + 1
             /\ state'.remaining = Max(0, state.remaining - 5)
             /\ state'.errorCells = state.errorCells \cup {rc}
             /\ state'.lost <=> (\/ state'.errorCount >= state.maxErrors
                                 \/ state'.remaining = 0)
             /\ (checkWin(state'.board, state.rowClues, state.colClues)
                 /\ state'.errorCount < state.maxErrors
                 /\ state'.remaining > 0) => state'.won]_vars

C8_Witness ==
    /\ state # Idle
    /\ state.won /\ state.errorCount = 1
    /\ \E rc \in state.errorCells : state.board[rc[1]][rc[2]] = Filled
    /\ \E rc \in Cells(state) : state.board[rc[1]][rc[2]] = MarkedX

exhausts(s) ==
    s.errorCount + 1 >= s.maxErrors \/ s.remaining - PENALTY_SECONDS <= 0

(* C9: won and lost are never both true; a wrong MARK_X that completes     *)
(* the board and exhausts the error budget or the time gives lost=true     *)
(* and won=false.                                                          *)
C9_LostBeforeWon ==
    /\ [](state.won => ~state.lost)
    /\ [][\A rc \in wrongMarkCells(state) :
             (/\ Playing(state)
              /\ state' = MARK_X(state, rc[1], rc[2])
              /\ checkWin(state'.board, state.rowClues, state.colClues)
              /\ exhausts(state))
             => (state'.lost /\ ~state'.won)]_vars

C9_Witness ==
    /\ state # Idle
    /\ state.lost /\ ~state.won
    /\ checkWin(state.board, state.rowClues, state.colClues)

sameGame(s, t) ==
    /\ t.board = s.board /\ t.remaining = s.remaining
    /\ t.errorCount = s.errorCount /\ t.won = s.won /\ t.lost = s.lost
    /\ t.lostReason = s.lostReason

(* C10: once won or lost is set, FILL_CELL, MARK_X and TICK return the     *)
(* state unchanged, and a step leaves the terminal state only by           *)
(* NEW_GAME or RESET (the result is a freshly created initial state).      *)
C10_TerminalFrozen ==
    [][(state.won \/ state.lost) =>
          /\ \A rc \in Cells(state) :
                 /\ FILL_CELL(state, rc[1], rc[2]) = state
                 /\ MARK_X(state, rc[1], rc[2]) = state
          /\ TICK(state) = state
          /\ \/ sameGame(state, state')
             \/ state' = createInitialState(state'.puzzle)]_vars

C10_Witness ==
    /\ state # Idle
    /\ state.lost /\ state.lostReason = "errors" /\ state.remaining > 0
    /\ \E rc \in Cells(state) : state.board[rc[1]][rc[2]] = Empty

correctFillCells(s) ==
    {rc \in Cells(s) : s.board[rc[1]][rc[2]] = Empty
                       /\ s.puzzle.solution[rc[1]][rc[2]] = 1}

correctMarkCells(s) ==
    {rc \in Cells(s) : s.board[rc[1]][rc[2]] = Empty
                       /\ s.puzzle.solution[rc[1]][rc[2]] = 0}

rowSatisfied(s, board, r) == lineMatchesClue(filledPattern(board[r]), s.rowClues[r])

colSatisfied(s, board, c) ==
    lineMatchesClue(filledPattern(column(board, c)), s.colClues[c])

(* every row and column of board whose Filled pattern matches its clue has *)
(* no Empty cell                                                           *)
satisfiedLinesClosed(s, board) ==
    \A rc \in Cells(s) :
        (rowSatisfied(s, board, rc[1]) \/ colSatisfied(s, board, rc[2]))
            => board[rc[1]][rc[2]] # Empty

(* a satisfied line that does not contain the cell rc and has an Empty cell *)
openSatisfiedLineAwayFrom(s, rc) ==
    \E q \in Cells(s) :
        /\ s.board[q[1]][q[2]] = Empty
        /\ \/ q[1] # rc[1] /\ rowSatisfied(s, s.board, q[1])
           \/ q[2] # rc[2] /\ colSatisfied(s, s.board, q[2])

(* C11: after a FILL_CELL on an Empty cell whose solution value is filled, *)
(* in a Playing state, every row and every column of the resulting board   *)
(* whose Filled pattern matches its clue has no Empty cell, also the lines *)
(* that do not contain the filled cell; apart from the target cell, only   *)
(* Empty cells of such lines change, and they become MarkedX.              *)
C11_CorrectFillAutoMarks ==
    [][\A rc \in correctFillCells(state) :
          (Playing(state) /\ state' = FILL_CELL(state, rc[1], rc[2]))
          => /\ state'.board[rc[1]][rc[2]] = Filled
             /\ satisfiedLinesClosed(state, state'.board)
             /\ \A q \in Cells(state) \ {rc} :
                    state'.board[q[1]][q[2]] # state.board[q[1]][q[2]]
                    => /\ state.board[q[1]][q[2]] = Empty
                       /\ state'.board[q[1]][q[2]] = MarkedX
                       /\ \/ rowSatisfied(state, state'.board, q[1])
                          \/ colSatisfied(state, state'.board, q[2])]_vars

C11_Witness ==
    /\ state # Idle
    /\ Playing(state)
    /\ \E rc \in correctFillCells(state) :
           /\ openSatisfiedLineAwayFrom(state, rc)
           /\ satisfiedLinesClosed(state, FILL_CELL(state, rc[1], rc[2]).board)
           /\ ~FILL_CELL(state, rc[1], rc[2]).won

(* C12: after a MARK_X on an Empty cell whose solution value is empty, in   *)
(* a Playing state, every row and every column of the resulting board      *)
(* whose Filled pattern matches its clue has no Empty cell, whatever fills, *)
(* marks and un-marks came before.                                         *)
C12_CorrectMarkAutoMarks ==
    [][\A rc \in correctMarkCells(state) :
          (Playing(state) /\ state' = MARK_X(state, rc[1], rc[2]))
          => satisfiedLinesClosed(state, state'.board)]_vars

(* C16: a TICK in a started state that is neither won nor lost decreases   *)
(* remaining by exactly 1 and changes nothing else, except that reaching 0 *)
(* also sets lost with lostReason 'time'; a TICK before the start or in a  *)
(* won or lost state returns the state unchanged.                          *)
C16_Tick ==
    LET t == gameReducer(state, [type |-> "TICK"])
    IN  IF state.started /\ Playing(state)
        THEN /\ t.remaining = state.remaining - 1
             /\ t.remaining = 0 =>
                    t = [state EXCEPT !.remaining = 0, !.lost = TRUE,
                                      !.lostReason = "time"]
             /\ t.remaining # 0 => t = [state EXCEPT !.remaining = @ - 1]
        ELSE t = state

C16_Witness ==
    /\ state # Idle
    /\ state.lost /\ state.lostReason = "time" /\ state.remaining = 0
    /\ state.errorCount = 0
    /\ \E rc \in Cells(state) : state.board[rc[1]][rc[2]] = Filled

initialOf(puzzle, s) ==
    /\ s.puzzle = puzzle
    /\ s.board = [r \in 1..puzzle.rows |-> [c \in 1..puzzle.cols |-> Empty]]
    /\ s.rowClues = [r \in 1..puzzle.rows |-> lineClues(puzzle.solution[r])]
    /\ s.colClues = [c \in 1..puzzle.cols |-> lineClues(column(puzzle.solution, c))]
    /\ s.remaining = s.timeLimit
    /\ s.errorCount = 0 /\ s.errorCells = {}
    /\ ~s.started /\ ~s.won /\ ~s.lost /\ s.lostReason = "null"

(* C17: from any state, the won and lost ones included, NEW_GAME(puzzle)   *)
(* and RESET give the initial state of the given (for RESET: the current)  *)
(* puzzle: all-Empty board of its dimensions, clues recomputed from its    *)
(* solution, remaining = timeLimit, no errors, not started, won or lost.   *)
C17_NewGameAndResetRestart ==
    /\ \A puzzle \in Puzzles :
           initialOf(puzzle, gameReducer(state, [type |-> "NEW_GAME",
                                                 puzzle |-> puzzle]))
    /\ initialOf(state.puzzle, gameReducer(state, [type |-> "RESET"]))

C17_Witness ==
    /\ state # Idle
    /\ state.lost /\ state.errorCount > 0 /\ state.remaining < state.timeLimit
    /\ \E rc \in Cells(state) : state.board[rc[1]][rc[2]] = Filled
    /\ initialOf(state.puzzle, gameReducer(state, [type |-> "RESET"]))
    /\ \E puzzle \in Puzzles \ {state.puzzle} :
           initialOf(puzzle, gameReducer(state, [type |-> "NEW_GAME",
                                                 puzzle |-> puzzle]))

noPenalty(s, t) ==
    /\ t.errorCount = s.errorCount /\ t.remaining = s.remaining
    /\ t.errorCells = s.errorCells /\ t.won = s.won /\ t.lost = s.lost

(* C18: in a Playing state FILL_CELL on a MarkedX cell and MARK_X on a     *)
(* Filled cell return the state unchanged; FILL_CELL on a Filled cell and  *)
(* MARK_X on a MarkedX cell set only that cell to Empty and leave          *)
(* errorCount, remaining, errorCells, won and lost as they were.           *)
C18_SetCellsCostNothing ==
    Playing(state) =>
        \A rc \in Cells(state) :
            LET cell == state.board[rc[1]][rc[2]]
                f == FILL_CELL(state, rc[1], rc[2])
                m == MARK_X(state, rc[1], rc[2])
                cleared == [state.board EXCEPT ![rc[1]][rc[2]] = Empty]
            IN  /\ cell = MarkedX =>
                       /\ f = state
                       /\ m.board = cleared /\ noPenalty(state, m)
                /\ cell = Filled =>
                       /\ m = state
                       /\ f.board = cleared /\ noPenalty(state, f)

C18_Witness ==
    /\ state # Idle
    /\ Playing(state) /\ state.errorCount > 0
    /\ \E rc \in Cells(state) :
           /\ state.board[rc[1]][rc[2]] = MarkedX
           /\ rc \in state.errorCells
           /\ FILL_CELL(state, rc[1], rc[2]) = state
           /\ MARK_X(state, rc[1], rc[2]).board[rc[1]][rc[2]] = Empty
    /\ \E rc \in Cells(state) :
           /\ state.board[rc[1]][rc[2]] = Filled
           /\ FILL_CELL(state, rc[1], rc[2]).board[rc[1]][rc[2]] = Empty

bothTrip(s, t) == t.errorCount = s.maxErrors /\ t.remaining = 0

(* C19: a wrong fill or wrong mark that brings errorCount to maxErrors and *)
(* remaining to 0 at once gives lostReason 'errors'; lostReason is 'time'  *)
(* only with remaining = 0 and errorCount below maxErrors.                 *)
C19_ErrorsBeforeTime ==
    /\ state.lostReason = "time" =>
           (state.remaining = 0 /\ state.errorCount < state.maxErrors)
    /\ Playing(state) =>
           /\ \A rc \in wrongFillCells(state) :
                  LET t == FILL_CELL(state, rc[1], rc[2])
                  IN  bothTrip(state, t) => (t.lost /\ t.lostReason = "errors")
           /\ \A rc \in wrongMarkCells(state) :
                  LET t == MARK_X(state, rc[1], rc[2])
                  IN  bothTrip(state, t) => (t.lost /\ t.lostReason = "errors")

C19_Witness ==
    /\ state # Idle
    /\ state.lost /\ state.lostReason = "errors"
    /\ state.remaining = 0 /\ state.errorCount = state.maxErrors

(* C21: the board never contradicts the solution: every Filled cell is    *)
(* filled in the solution and every MarkedX cell, whoever placed it, is    *)
(* empty in the solution.                                                  *)
C21_BoardAgreesWithSolution ==
    \A rc \in Cells(state) :
        /\ state.board[rc[1]][rc[2]] = Filled
               => state.puzzle.solution[rc[1]][rc[2]] = 1
        /\ state.board[rc[1]][rc[2]] = MarkedX
               => state.puzzle.solution[rc[1]][rc[2]] = 0

C21_Witness ==
    /\ state # Idle
    /\ Playing(state)
    /\ \E rc \in state.errorCells : state.board[rc[1]][rc[2]] = MarkedX
    /\ \E rc \in state.errorCells : state.board[rc[1]][rc[2]] = Filled
    /\ \E rc \in Cells(state) \ state.errorCells :
           state.board[rc[1]][rc[2]] = MarkedX
    /\ \E rc \in Cells(state) :
           /\ state.board[rc[1]][rc[2]] = Empty
           /\ state.puzzle.solution[rc[1]][rc[2]] = 1

filledSet(s) == {rc \in Cells(s) : s.board[rc[1]][rc[2]] = Filled}

(* C22: for a puzzle with a filled cell, won holds iff lost does not and   *)
(* the Filled cells are exactly the solution-filled cells; the clues are   *)
(* never all matched by another set of Filled cells, and a board that      *)
(* matches them is never left in the Playing state.                        *)
C22_WonIffSolved ==
    filledCells(state.puzzle.solution) # {} =>
        /\ state.won <=> (/\ ~state.lost
                          /\ filledSet(state) = filledCells(state.puzzle.solution))
        /\ checkWin(state.board, state.rowClues, state.colClues)
               => filledSet(state) = filledCells(state.puzzle.solution)
        /\ Playing(state)
               => ~checkWin(state.board, state.rowClues, state.colClues)

C22_Witness ==
    /\ state # Idle
    /\ state.won /\ ~state.lost
    /\ filledSet(state) = filledCells(state.puzzle.solution)
    /\ Cardinality(filledSet(state)) >= 3
    /\ state.errorCount = 0

(* C26: lost holds iff errorCount >= maxErrors or remaining = 0;           *)
(* lostReason is 'errors' exactly when errorCount >= maxErrors, 'time'     *)
(* exactly when lost holds with errorCount < maxErrors, and null exactly   *)
(* when lost is false.                                                     *)
C26_LostAndReason ==
    (state.timeLimit > 0 /\ state.maxErrors > 0) =>
        /\ state.lost <=> (state.errorCount >= state.maxErrors
                           \/ state.remaining = 0)
        /\ state.lostReason = "errors" <=> state.errorCount >= state.maxErrors
        /\ state.lostReason = "time"
               <=> (state.lost /\ state.errorCount < state.maxErrors)
        /\ state.lostReason = "null" <=> ~state.lost

C26_Witness ==
    /\ state # Idle
    /\ state.lost /\ state.lostReason = "time" /\ state.remaining = 0
    /\ state.errorCount >= 1 /\ state.errorCount < state.maxErrors
    /\ state.remaining + state.errorCount * PENALTY_SECONDS < state.timeLimit

(* C27: a state with won = true has no Empty cell: each cell is Filled     *)
(* where the solution is filled and MarkedX everywhere else.               *)
C27_WonBoardHasNoEmpty ==
    state.won =>
        \A rc \in Cells(state) :
            state.board[rc[1]][rc[2]] =
                IF state.puzzle.solution[rc[1]][rc[2]] = 1 THEN Filled ELSE MarkedX

C27_Witness ==
    /\ state # Idle
    /\ state.won
    /\ state.errorCells = {}
    /\ \A rc \in Cells(state) : state.board[rc[1]][rc[2]] # Empty
    /\ Cardinality({rc \in Cells(state) : state.board[rc[1]][rc[2]] = MarkedX}) >= 3

pristine(s) ==
    /\ \A rc \in Cells(s) : s.board[rc[1]][rc[2]] = Empty
    /\ s.remaining = s.timeLimit
    /\ s.errorCount = 0
    /\ ~s.won /\ ~s.lost

(* C29: a state with started = false is pristine (all-Empty board,         *)
(* remaining = timeLimit, errorCount = 0, neither won nor lost); TICK,     *)
(* CLEAR_ERROR and SET_INPUT_MODE never set started, and every FILL_CELL   *)
(* or MARK_X that changes the board sets started.                          *)
C29_NotStartedIsPristine ==
    /\ ~state.started => pristine(state)
    /\ gameReducer(state, [type |-> "TICK"]).started = state.started
    /\ \A mode \in InputModes :
           gameReducer(state, [type |-> "SET_INPUT_MODE", mode |-> mode]).started
               = state.started
    /\ \A rc \in Cells(state) :
           /\ gameReducer(state, [type |-> "CLEAR_ERROR", row |-> rc[1],
                                  col |-> rc[2]]).started = state.started
           /\ FILL_CELL(state, rc[1], rc[2]).board # state.board
                  => FILL_CELL(state, rc[1], rc[2]).started
           /\ MARK_X(state, rc[1], rc[2]).board # state.board
                  => MARK_X(state, rc[1], rc[2]).started

C29_Witness ==
    /\ state # Idle
    /\ ~state.started /\ pristine(state)
    /\ state.inputMode = "markX"
    /\ \E rc \in wrongFillCells(state) :
           /\ FILL_CELL(state, rc[1], rc[2]).started
           /\ ~pristine(FILL_CELL(state, rc[1], rc[2]))

(* One game played to its end: no NEW_GAME and no RESET.  useTimer runs    *)
(* setInterval(tick, 1000) for as long as started holds and the game is    *)
(* neither won nor lost, so a TICK that would change the state is          *)
(* eventually dispatched.                                                  *)
NextPlay ==
    \/ fillCell
    \/ markX
    \/ clearError
    \/ setInputMode
    \/ tick

SpecPlay == Init /\ [][NextPlay]_vars /\ WF_vars(tick)

(* C28: once started, a game without NEW_GAME and RESET in which TICK      *)
(* keeps being delivered eventually is won or lost, whatever FILL_CELL,    *)
(* MARK_X, CLEAR_ERROR and SET_INPUT_MODE actions are interleaved; none of *)
(* these actions ever increases remaining.                                 *)
C28_EventuallyWonOrLost ==
    /\ [](state.started => <>(state.won \/ state.lost))
    /\ [][state'.remaining <= state.remaining]_vars

C28_Witness ==
    /\ state # Idle
    /\ state.lost /\ state.lostReason = "time"
    /\ state.inputMode = "markX"
    /\ state.errorCount > 0 /\ state.errorCells = {}
    /\ \E rc \in Cells(state) : state.board[rc[1]][rc[2]] = Filled
    /\ \E rc \in Cells(state) : state.board[rc[1]][rc[2]] = Empty

-----------------------------------------------------------------------------
(* The win checker as a pure function of any rectangular board and any     *)
(* clue arrays.                                                            *)

WinMaxCells == 4

WinDims ==
    {d \in (1..WinMaxCells) \X (1..WinMaxCells) : d[1] * d[2] <= WinMaxCells}

Boards(rows, cols) == [1..rows -> [1..cols -> CellStates]]

(* the clues a line of n cells can have *)
LineClues(n) == {lineClues(b) : b \in BinaryLines(n)}

InitWin ==
    /\ \E d \in WinDims :
           \E board \in Boards(d[1], d[2]),
              rowClues \in [1..d[1] -> LineClues(d[2])],
              colClues \in [1..d[2] -> LineClues(d[1])] :
               win = [board |-> board, rowClues |-> rowClues,
                      colClues |-> colClues, returned |-> FALSE,
                      result |-> FALSE]
    /\ state = Idle /\ gen = Idle
    /\ mark = Idle /\ match = Idle
    /\ line = <<>> /\ clues = <<>> /\ completion = <<>>

callCheckWin ==
    /\ ~win.returned
    /\ win' = [win EXCEPT !.returned = TRUE,
                          !.result = checkWin(win.board, win.rowClues, win.colClues)]
    /\ UNCHANGED <<state, line, clues, completion, gen, mark, match>>

NextWin == callCheckWin

SpecWin == InitWin /\ [][NextWin]_vars

rowMatches(w, r) ==
    lineMatchesClue([c \in 1..Len(w.board[r]) |->
                        IF w.board[r][c] \in {Empty, MarkedX} THEN 0 ELSE 1],
                    w.rowClues[r])

colMatches(w, c) ==
    lineMatchesClue([r \in 1..Len(w.board) |->
                        IF w.board[r][c] \in {Empty, MarkedX} THEN 0 ELSE 1],
                    w.colClues[c])

(* C6: checkWin is true iff every row and every column matches its clue,   *)
(* where a MarkedX cell counts as not filled; one mismatching row or one   *)
(* mismatching column is enough to make it false.                          *)
C6_WinIffAllLinesMatch ==
    win.returned =>
        (win.result <=>
            /\ \A r \in 1..Len(win.board) : rowMatches(win, r)
            /\ \A c \in 1..Len(win.board[1]) : colMatches(win, c))

C6_Witness ==
    /\ win # Idle
    /\ win.returned /\ ~win.result
    /\ \A r \in 1..Len(win.board) : rowMatches(win, r)
    /\ Cardinality({c \in 1..Len(win.board[1]) : ~colMatches(win, c)}) = 1
    /\ \E r \in 1..Len(win.board), c \in 1..Len(win.board[1]) :
           win.board[r][c] = MarkedX

-----------------------------------------------------------------------------
(* The auto-mark pass as a function of any rectangular board and any clue  *)
(* arrays: autoMarkCompleted mutates the board it is given, and is called  *)
(* on it again.                                                            *)

MarkMaxCells == 4

MaxPasses == 2

MarkDims ==
    {d \in (1..MarkMaxCells) \X (1..MarkMaxCells) : d[1] * d[2] <= MarkMaxCells}

(* mark.boards is the board before the first call followed by the board    *)
(* after each call                                                         *)
InitMark ==
    /\ \E d \in MarkDims :
           \E board \in Boards(d[1], d[2]),
              rowClues \in [1..d[1] -> LineClues(d[2])],
              colClues \in [1..d[2] -> LineClues(d[1])] :
               mark = [boards |-> <<board>>, rowClues |-> rowClues,
                       colClues |-> colClues]
    /\ state = Idle /\ win = Idle /\ gen = Idle /\ match = Idle
    /\ line = <<>> /\ clues = <<>> /\ completion = <<>>

callAutoMarkCompleted ==
    /\ Len(mark.boards) <= MaxPasses
    /\ mark' = [mark EXCEPT !.boards =
                    Append(@, autoMarkCompleted(@[Len(@)], mark.rowClues,
                                                mark.colClues))]
    /\ UNCHANGED <<state, line, clues, completion, win, gen, match>>

NextMark == callAutoMarkCompleted

SpecMark == InitMark /\ [][NextMark]_vars

keepsSetCells(before, after) ==
    \A r \in 1..Len(before), c \in 1..Len(before[1]) :
        before[r][c] # Empty => after[r][c] = before[r][c]

(* C13: on every board and clue arrays, a second auto-mark pass changes    *)
(* nothing the first one left, and no pass changes a Filled or MarkedX     *)
(* cell.                                                                   *)
C13_AutoMarkIdempotent ==
    mark # Idle =>
        \A i \in 2..Len(mark.boards) :
            /\ keepsSetCells(mark.boards[i - 1], mark.boards[i])
            /\ i >= 3 => mark.boards[i] = mark.boards[i - 1]

C13_Witness ==
    /\ mark # Idle
    /\ Len(mark.boards) = 3
    /\ mark.boards[3] = mark.boards[2]
    /\ \E r \in 1..Len(mark.boards[1]), c \in 1..Len(mark.boards[1][1]) :
           /\ mark.boards[1][r][c] = Empty /\ mark.boards[2][r][c] = MarkedX
           /\ ~lineMatchesClue(filledPattern(mark.boards[1][r]), mark.rowClues[r])
    /\ \E r \in 1..Len(mark.boards[1]), c \in 1..Len(mark.boards[1][1]) :
           mark.boards[2][r][c] = Empty

-----------------------------------------------------------------------------
(* lineMatchesClue as a pure function of any binary line and any number    *)
(* array.                                                                  *)

MatchMaxLen == 5

MatchMaxClueLen == 3

MatchLines == UNION {BinaryLines(n) : n \in 1..MatchMaxLen}

MatchClues == SeqsOf(0..MatchMaxLen, MatchMaxClueLen) \cup {<<>>}

InitMatch ==
    /\ \E ln \in MatchLines, clue \in MatchClues :
           match = [line |-> ln, clue |-> clue, returned |-> FALSE,
                    result |-> FALSE]
    /\ state = Idle /\ win = Idle /\ gen = Idle /\ mark = Idle
    /\ line = <<>> /\ clues = <<>> /\ completion = <<>>

callLineMatchesClue ==
    /\ ~match.returned
    /\ match' = [match EXCEPT !.returned = TRUE,
                              !.result = lineMatchesClue(match.line, match.clue)]
    /\ UNCHANGED <<state, line, clues, completion, win, gen, mark>>

NextMatch == callLineMatchesClue

SpecMatch == InitMatch /\ [][NextMatch]_vars

(* C15: lineMatchesClue(line, clue) is true when clue is the clue of the   *)
(* line (for the all-empty line: [0]) and false for every clue that        *)
(* differs from it in length or in an element.                             *)
C15_MatchesExactlyOwnClue ==
    (match # Idle /\ match.returned) =>
        (match.result <=> match.clue = lineClues(match.line))

C15_Witness ==
    /\ match # Idle
    /\ match.returned /\ ~match.result
    /\ Len(match.clue) = 2 /\ Len(lineClues(match.line)) = 2
    /\ match.clue[1] = lineClues(match.line)[1]
    /\ match.clue[2] # lineClues(match.line)[2]

-----------------------------------------------------------------------------
(* logic/generate.ts.  Cells are 0-based pairs <<r, c>> as in the code; a  *)
(* grid is the sequence of its rows.  Math.random() is a nondeterministic  *)
(* choice: where only a comparison or a floor of the draw is used, every   *)
(* outcome of it is modelled; the four real-valued parameters of an        *)
(* ellipse are drawn from the quarters 0, 1/4, 1/2, 3/4.  The display name *)
(* and the accent colour of the returned puzzle are left out.              *)

gridOf(rows, cols, cells) ==
    [r \in 1..rows |-> [c \in 1..cols |-> IF <<r - 1, c - 1>> \in cells THEN 1 ELSE 0]]

makeGrid(rows, cols) == gridOf(rows, cols, {})

clamp(v, min, max) == IF v < min THEN min ELSE IF v > max THEN max ELSE v

randDir == {-1, 1}

RECURSIVE unionsOf(_, _)
unionsOf(shapes, n) ==
    IF n = 1 THEN shapes
    ELSE {a \cup b : a \in unionsOf(shapes, n - 1), b \in shapes}

(* p lies in [0.05, 0.925], so each mirrored pair of cells can take either value *)
symmetricBlob(rows, cols) ==
    {g \in Grids(rows, cols) :
        \A r \in 1..rows, c \in 1..cols : g[r][c] = g[r][cols + 1 - c]}

Quarters == 0..3

(* ((r - cr) / ry)^2 + ((c - cc) / rx)^2 <= 1 with cr = rows * (6 + 7 k1) / 40, *)
(* cc = cols * (6 + 7 k2) / 40, ry = (15 + k3 * rows) / 10, rx = (15 + k4 * cols) / 10 *)
ellipse(rows, cols, k1, k2, k3, k4) ==
    LET CR == rows * (6 + 7 * k1)
        CC == cols * (6 + 7 * k2)
        RY == 15 + k3 * rows
        RX == 15 + k4 * cols
    IN  {rc \in (0..(rows - 1)) \X (0..(cols - 1)) :
            (40 * rc[1] - CR) * (40 * rc[1] - CR) * RX * RX
            + (40 * rc[2] - CC) * (40 * rc[2] - CC) * RY * RY
            <= 16 * RX * RX * RY * RY}

circleBased(rows, cols) ==
    LET shapes == {ellipse(rows, cols, k[1], k[2], k[3], k[4]) :
                      k \in Quarters \X Quarters \X Quarters \X Quarters}
    IN  {gridOf(rows, cols, u) :
            u \in UNION {unionsOf(shapes, numShapes) : numShapes \in 2..5}}

(* Math.floor(n / 2 + (Math.random() - 0.5) * n * 0.4) ranges over the     *)
(* integers of [0.3 n, 0.7 n)                                              *)
walkStarts(n) == ((3 * n) \div 10)..((7 * n - 1) \div 10)

RECURSIVE walkFrom(_, _, _, _, _)
walkFrom(rows, cols, r0, c0, steps) ==
    IF steps = 0 THEN {{}}
    ELSE LET r == clamp(r0, 0, rows - 1)
             c == clamp(c0, 0, cols - 1)
             marks == {{<<r, c>>}} \cup
                      {{<<r, c>>, <<clamp(r + dr, 0, rows - 1),
                                    clamp(c + dc, 0, cols - 1)>>} :
                          dr \in randDir, dc \in randDir}
             moves == {<<r - 1, c>>, <<r + 1, c>>, <<r, c - 1>>, <<r, c + 1>>}
         IN  {m \cup rest :
                 m \in marks,
                 rest \in UNION {walkFrom(rows, cols, n[1], n[2], steps - 1) :
                                    n \in moves}}

walkBased(rows, cols) ==
    LET stepsPerWalk == (rows * cols * 12) \div 100
        walks == UNION {walkFrom(rows, cols, r, c, stepsPerWalk) :
                           r \in walkStarts(rows), c \in walkStarts(cols)}
    IN  {gridOf(rows, cols, u) :
            u \in UNION {unionsOf(walks, numWalks) : numWalks \in 3..6}}

generateBase(rows, cols) ==
    symmetricBlob(rows, cols) \cup circleBased(rows, cols) \cup walkBased(rows, cols)

neighbours(prev, rows, cols, r, c) ==
    Cardinality({n \in ((r - 1)..(r + 1)) \X ((c - 1)..(c + 1)) :
                    /\ n # <<r, c>>
                    /\ n[1] >= 1 /\ n[1] <= rows /\ n[2] >= 1 /\ n[2] <= cols
                    /\ prev[n[1]][n[2]] = 1})

smoothPass(prev, rows, cols) ==
    [r \in 1..rows |-> [c \in 1..cols |->
        LET n == neighbours(prev, rows, cols, r, c)
        IN  IF prev[r][c] = 1
            THEN IF n >= 2 THEN 1 ELSE 0
            ELSE IF n >= 4 THEN 1 ELSE 0]]

RECURSIVE smooth(_, _, _, _)
smooth(grid, rows, cols, passes) ==
    IF passes = 0 THEN grid
    ELSE smooth(smoothPass(grid, rows, cols), rows, cols, passes - 1)

smoothPasses(rows) == IF rows <= 5 THEN 0 ELSE IF rows <= 10 THEN 1 ELSE 2

countFilled(grid, rows, cols) == Cardinality(filledCells(grid))

hasEmptyLine(grid, rows, cols) ==
    \/ \E r \in 1..rows : \A c \in 1..cols : grid[r][c] = 0
    \/ \E c \in 1..cols : \A r \in 1..rows : grid[r][c] = 0

(* density < 0.3 || density > 0.65, with density = filled / total *)
densityRejected(filled, total) == 10 * filled < 3 * total \/ 100 * filled > 65 * total

(* |density - 0.45| times 100 * total (the same factor for every candidate *)
(* of one call)                                                            *)
distanceOf(filled, total) == Abs(100 * filled - 45 * total)

(* The pairs <<filled, total>> whose score, as the IEEE-754 double the     *)
(* code computes, lies above the double of the candidate at the same       *)
(* distance on the other side of 0.45: 12 / 20 gives -1.4999999999999996   *)
(* and 6 / 20 gives -1.5000000000000002.  For the totals 4, 6 and 9 no two *)
(* filled counts are at the same distance, and for the total 20 the pairs  *)
(* 7 and 11, 8 and 10 give equal doubles.                                  *)
RoundedAbove == {<<12, 20>>}

(* the order of the doubles -Math.abs(density - 0.45) * 10 *)
scoreOf(filled, total) ==
    (0 - 2 * distanceOf(filled, total))
    + (IF <<filled, total>> \in RoundedAbove THEN 1 ELSE 0)

NegInfinity == 0 - 1000000

(* p lies in [0.05, 0.85), so each cell can take either value *)
fallback(rows, cols) == Grids(rows, cols)

MaxAttempts == 30

GenSizes == {<<2, 2>>, <<2, 3>>, <<3, 3>>, <<6, 1>>}

BaseGrids == [size \in GenSizes |-> generateBase(size[1], size[2])]

(* the iteration `continue`s on this base grid (generate.ts 21 and 26)     *)
rejects(rows, cols, base) ==
    LET grid == smooth(base, rows, cols, smoothPasses(rows))
    IN  \/ hasEmptyLine(grid, rows, cols)
        \/ densityRejected(countFilled(grid, rows, cols), rows * cols)

(* An iteration that rejects its grid changes nothing but the attempt      *)
(* counter, whatever the grid was: the rejected base grids are drawn as    *)
(* one of them, the others each on its own.                                *)
AttemptGrids ==
    [size \in GenSizes |->
        LET rejected == {base \in BaseGrids[size] : rejects(size[1], size[2], base)}
        IN  (BaseGrids[size] \ rejected) \cup
            (IF rejected = {} THEN {} ELSE {CHOOSE base \in rejected : TRUE})]

InitGen ==
    /\ \E size \in GenSizes :
           gen = [rows |-> size[1], cols |-> size[2], attempt |-> 0,
                  best |-> <<>>, bestScore |-> NegInfinity,
                  pc |-> "loop", solution |-> <<>>]
    /\ state = Idle /\ win = Idle
    /\ mark = Idle /\ match = Idle
    /\ line = <<>> /\ clues = <<>> /\ completion = <<>>

(* one iteration of the attempt loop *)
attemptResult_keepsFirst(g, base) ==
    LET grid == smooth(base, g.rows, g.cols, smoothPasses(g.rows))
        total == g.rows * g.cols
        filled == countFilled(grid, g.rows, g.cols)
        score == scoreOf(filled, total)
    IN  IF hasEmptyLine(grid, g.rows, g.cols)
        THEN [g EXCEPT !.attempt = g.attempt + 1]
        ELSE IF densityRejected(filled, total)
             THEN [g EXCEPT !.attempt = g.attempt + 1]
             ELSE IF g.best = <<>>
                  THEN [g EXCEPT !.attempt = g.attempt + 1,
                                 !.bestScore = score, !.best = grid]
                  ELSE [g EXCEPT !.attempt = g.attempt + 1]

attemptResult(g, base) ==
    LET grid == smooth(base, g.rows, g.cols, smoothPasses(g.rows))
        total == g.rows * g.cols
        filled == countFilled(grid, g.rows, g.cols)
        score == scoreOf(filled, total)
    IN  IF hasEmptyLine(grid, g.rows, g.cols)
        THEN [g EXCEPT !.attempt = g.attempt + 1]
        ELSE IF densityRejected(filled, total)
             THEN [g EXCEPT !.attempt = g.attempt + 1]
             ELSE IF score > g.bestScore
                  THEN [g EXCEPT !.attempt = g.attempt + 1,
                                 !.bestScore = score, !.best = grid]
                  ELSE [g EXCEPT !.attempt = g.attempt + 1]

attempt ==
    /\ gen.pc = "loop"
    /\ gen.attempt < MaxAttempts
    /\ \E base \in AttemptGrids[<<gen.rows, gen.cols>>] : gen' = attemptResult(gen, base)
    /\ UNCHANGED <<state, line, clues, completion, win, mark, match>>

returnBest ==
    /\ gen.pc = "loop"
    /\ gen.attempt >= MaxAttempts
    /\ gen.best # <<>>
    /\ gen' = [gen EXCEPT !.pc = "done", !.solution = gen.best]
    /\ UNCHANGED <<state, line, clues, completion, win, mark, match>>

returnFallback_retries ==
    /\ gen.pc = "loop"
    /\ gen.attempt >= MaxAttempts
    /\ gen.best = <<>>
    /\ gen' = [gen EXCEPT !.attempt = 0]
    /\ UNCHANGED <<state, line, clues, completion, win, mark, match>>

returnFallback ==
    /\ gen.pc = "loop"
    /\ gen.attempt >= MaxAttempts
    /\ gen.best = <<>>
    /\ \E grid \in fallback(gen.rows, gen.cols) :
           gen' = [gen EXCEPT !.pc = "done", !.best = grid, !.solution = grid]
    /\ UNCHANGED <<state, line, clues, completion, win, mark, match>>

NextGen ==
    \/ attempt
    \/ returnBest
    \/ returnFallback

SpecGen == InitGen /\ [][NextGen]_vars

(* C5: the solution grid returned by generateRandomPuzzle has no entirely  *)
(* empty row and no entirely empty column.                                 *)
C5_NoEmptyLineReturned ==
    gen.pc = "done" => ~hasEmptyLine(gen.solution, gen.rows, gen.cols)

(* generateRandomPuzzle is one synchronous call: once entered, each        *)
(* iteration of its loop and its return are executed.                      *)
SpecGenLive == InitGen /\ [][NextGen]_vars /\ WF_vars(NextGen)

(* C20: generateRandomPuzzle terminates and returns a rows x cols grid; it *)
(* makes at most 30 attempts, and when none of them was accepted it        *)
(* returns the fallback grid without a further attempt.                    *)
C20_TerminatesWithGrid ==
    /\ <>(gen.pc = "done")
    /\ [](gen.attempt <= 30)
    /\ [](gen.pc = "done" => gen.solution \in Grids(gen.rows, gen.cols))
    /\ [][(gen.pc = "loop" /\ gen.attempt >= 30 /\ gen.best = <<>>)
             => /\ gen'.pc = "done"
                /\ gen'.attempt = gen.attempt
                /\ gen'.solution \in fallback(gen.rows, gen.cols)]_vars

C20_Witness ==
    /\ gen # Idle
    /\ gen.pc = "done" /\ gen.attempt = 30
    /\ gen.bestScore = NegInfinity
    /\ gen.solution \in Grids(gen.rows, gen.cols)

-----------------------------------------------------------------------------
(* generateRandomPuzzle with a record of the candidates it accepted.  The  *)
(* 4 x 5 board is the smallest on which two accepted candidates can lie at *)
(* the same distance on both sides of the density 0.45.  Its grids are a   *)
(* sample of the outcomes of symmetricBlob, every cell of which can take   *)
(* either value: mirror-symmetric grids of 4, 6, 8, 10 and 12 filled       *)
(* cells, the first with an empty row.                                     *)

TieSize == <<4, 5>>

TieGrids ==
    {<<a, b, <<1, 0, 0, 0, 1>>, <<0, 1, 0, 1, 0>> >> :
        a \in {<<0, 0, 0, 0, 0>>, <<0, 0, 1, 0, 0>>, <<1, 1, 1, 1, 1>>},
        b \in {<<0, 0, 1, 0, 0>>, <<0, 1, 1, 1, 0>>}}

LoggedSizes == {<<2, 3>>, TieSize}

LoggedGrids ==
    [size \in LoggedSizes |-> IF size = TieSize THEN TieGrids ELSE AttemptGrids[size]]

NoCandidate == [dist |-> -1, first |-> <<>>, below |-> <<>>, above |-> <<>>]

(* gen.candidates: the least distance |density - 0.45| among the accepted  *)
(* candidates so far, the earliest candidate at that distance, and the     *)
(* earliest one at that distance on each side of 0.45                      *)
recordCandidate(cand, grid, rows, cols) ==
    LET total == rows * cols
        filled == countFilled(grid, rows, cols)
        dist == distanceOf(filled, total)
        isBelow == 100 * filled <= 45 * total
    IN  IF hasEmptyLine(grid, rows, cols) \/ densityRejected(filled, total)
        THEN cand
        ELSE IF cand.dist = -1 \/ dist < cand.dist
             THEN [dist |-> dist, first |-> grid,
                   below |-> IF isBelow THEN grid ELSE <<>>,
                   above |-> IF isBelow THEN <<>> ELSE grid]
             ELSE IF dist > cand.dist
                  THEN cand
                  ELSE [cand EXCEPT
                           !.below = IF isBelow /\ @ = <<>> THEN grid ELSE @,
                           !.above = IF ~isBelow /\ @ = <<>> THEN grid ELSE @]

InitGenLog ==
    /\ \E size \in LoggedSizes :
           gen = [rows |-> size[1], cols |-> size[2], attempt |-> 0,
                  best |-> <<>>, bestScore |-> NegInfinity,
                  pc |-> "loop", solution |-> <<>>,
                  candidates |-> NoCandidate]
    /\ state = Idle /\ win = Idle
    /\ mark = Idle /\ match = Idle
    /\ line = <<>> /\ clues = <<>> /\ completion = <<>>

attemptLogged ==
    /\ gen.pc = "loop"
    /\ gen.attempt < MaxAttempts
    /\ \E base \in LoggedGrids[<<gen.rows, gen.cols>>] :
           gen' = [attemptResult(gen, base) EXCEPT
                      !.candidates =
                          recordCandidate(@, smooth(base, gen.rows, gen.cols,
                                                    smoothPasses(gen.rows)),
                                          gen.rows, gen.cols)]
    /\ UNCHANGED <<state, line, clues, completion, win, mark, match>>

NextGenLog ==
    \/ attemptLogged
    \/ returnBest
    \/ returnFallback

SpecGenLog == InitGenLog /\ [][NextGenLog]_vars

returned == gen.pc = "done" /\ gen.candidates.first # <<>>

returnedIsBestCandidate ==
    /\ ~hasEmptyLine(gen.solution, gen.rows, gen.cols)
    /\ ~densityRejected(countFilled(gen.solution, gen.rows, gen.cols),
                        gen.rows * gen.cols)
    /\ distanceOf(countFilled(gen.solution, gen.rows, gen.cols),
                  gen.rows * gen.cols) = gen.candidates.dist
    /\ gen.bestScore # NegInfinity

(* C30 as stated: when some attempt was accepted, the returned grid is an  *)
(* accepted candidate at the least |density - 0.45| of the call, the       *)
(* earliest of the candidates at that distance, and not the fallback.      *)
C30_AsStated ==
    returned => (returnedIsBestCandidate /\ gen.solution = gen.candidates.first)

(* C30 amended: the returned grid is an accepted candidate at the least    *)
(* |density - 0.45| of the call and not the fallback; it is the earliest   *)
(* of the candidates at that distance on its own side of 0.45, and when    *)
(* there is one on each side the computed scores decide: equal scores keep *)
(* the earlier candidate, unequal ones the greater, whatever the order.    *)
C30_BestByComputedScore ==
    returned =>
        LET cand == gen.candidates
            total == gen.rows * gen.cols
            scoreBelow == scoreOf(countFilled(cand.below, gen.rows, gen.cols), total)
            scoreAbove == scoreOf(countFilled(cand.above, gen.rows, gen.cols), total)
        IN  /\ returnedIsBestCandidate
            /\ gen.solution \in {cand.below, cand.above}
            /\ (cand.below = <<>> \/ cand.above = <<>>) => gen.solution = cand.first
            /\ (cand.below # <<>> /\ cand.above # <<>>) =>
                   /\ scoreBelow = scoreAbove => gen.solution = cand.first
                   /\ scoreBelow > scoreAbove => gen.solution = cand.below
                   /\ scoreBelow < scoreAbove => gen.solution = cand.above

C30_Witness ==
    /\ gen # Idle
    /\ returned
    /\ gen.candidates.below # <<>> /\ gen.candidates.above # <<>>
    /\ gen.candidates.first = gen.candidates.below
    /\ gen.solution = gen.candidates.above
    /\ countFilled(gen.candidates.below, gen.rows, gen.cols) = 6
    /\ countFilled(gen.solution, gen.rows, gen.cols) = 12

=============================================================================
